---- MODULE Spec2Model ----
(***************************************************************************)
(* The wall puzzle (src/main.rs): a text is parsed into a graph of         *)
(* coloured edges (Puzzle::from_str, built from nom combinators) and       *)
(* Puzzle::solve searches it with pathfinding's dijkstra over the states   *)
(* (node, colour of the last edge).                                        *)
(*                                                                         *)
(* A text is a sequence of one-character strings; a node name and a colour *)
(* token are such sequences too.                                           *)
(***************************************************************************)
EXTENDS Naturals, Sequences, FiniteSets

VARIABLES text, pc, puzzle, start, end, to_see, parents, edge, succ, result

vars == <<text, pc, puzzle, start, end, to_see, parents, edge, succ, result>>

(***************************************************************************)
(* Bounds of the model.                                                    *)
(***************************************************************************)
\* edge-specs in a text whose graph is searched
MaxEdges == 3
\* edge-specs of one node line of such a text
MaxOut == 2
\* edge-specs in a text that is edited before it is parsed
MaxSpecs == 2

\* Names with a node line in a searched text, in the order of their lines.
DefOrder == << <<"a">>, <<"b">> >>
\* Names a query may name, and an edge of a wide text may lead to.
Names == { <<"a">>, <<"b">>, <<"c">>, <<"d">> }
\* Names an edge of a searched text may lead to.
Dests == { <<"a">>, <<"b">>, <<"c">> }
\* Names and colour tokens of the edited texts.
EditNames == { <<"a">>, <<"b">> }
ColorToks == { <<"r", "e", "d">>, <<"b", "l", "u", "e">> }
\* The characters an edit may insert.
EditChars == { "a", "1", " ", "\t", ":", "\n" }

(***************************************************************************)
(* Characters, as nom's character classes see them.                        *)
(***************************************************************************)
Alpha ==
    { "a", "b", "c", "d", "e", "f", "g", "h", "i", "j", "k", "l", "m",
      "n", "o", "p", "q", "r", "s", "t", "u", "v", "w", "x", "y", "z",
      "A", "B", "C", "D", "E", "F", "G", "H", "I", "J", "K", "L", "M",
      "N", "O", "P", "Q", "R", "S", "T", "U", "V", "W", "X", "Y", "Z" }

Blank == { " ", "\t" }

Drop(s, n) == SubSeq(s, n + 1, Len(s))

Take(s, n) == SubSeq(s, 1, n)

\* The length of the longest prefix of i made of characters of set.
RECURSIVE PrefixLen(_, _)
PrefixLen(i, set) ==
    IF i # << >> /\ Head(i) \in set THEN 1 + PrefixLen(Tail(i), set) ELSE 0

(***************************************************************************)
(* Color                                                                   *)
(***************************************************************************)
Colors == { "Red", "Blue", "None" }

\* impl Display for Color
Display(c) ==
    CASE c = "Red" -> <<"r", "e", "d">>
      [] c = "Blue" -> <<"b", "l", "u", "e">>
      [] OTHER -> <<"n", "o", "n", "e">>

\* A bug: only "red" is recognised.
ColorFromRedOnly(s) ==
    IF s = <<"r", "e", "d">> THEN "Red" ELSE "None"

\* impl From<&str> for Color
ColorFrom(s) ==
    CASE s = <<"r", "e", "d">> -> "Red"
      [] s = <<"b", "l", "u", "e">> -> "Blue"
      [] OTHER -> "None"

\* Edge::new
Edge(color, node) == [color |-> color, node |-> node]

(***************************************************************************)
(* The nom parsers. A result is [ok |-> TRUE, rest, val] or                *)
(* [ok |-> FALSE, rest, code] (nom::Err::Error with the input at the       *)
(* failure and the ErrorKind).                                             *)
(***************************************************************************)
Ok(rest, val) == [ok |-> TRUE, rest |-> rest, val |-> val]

Err(rest, code) == [ok |-> FALSE, rest |-> rest, code |-> code]

\* nom::character::complete::alpha1
alpha1(i) ==
    LET n == PrefixLen(i, Alpha)
    IN  IF n = 0 THEN Err(i, "Alpha") ELSE Ok(Drop(i, n), Take(i, n))

\* nom::character::complete::space1
space1(i) ==
    LET n == PrefixLen(i, Blank)
    IN  IF n = 0 THEN Err(i, "Space") ELSE Ok(Drop(i, n), Take(i, n))

\* nom::bytes::complete::tag of a one-character tag
tag(t, i) ==
    IF i # << >> /\ Head(i) = t THEN Ok(Tail(i), <<t>>) ELSE Err(i, "Tag")

\* parse_edge, line 101: Ok((input, Edge::new(Color::from(color), node)))
edge_new(color, node) ==
    IF ~node.ok THEN node
    ELSE Ok(node.rest, Edge(ColorFrom(color), node.val))

\* parse_edge, line 100: let (input, node) = alpha1(input)?
edge_node(color, colon) ==
    IF ~colon.ok THEN colon ELSE edge_new(color, alpha1(colon.rest))

\* parse_edge, line 99: let (input, _) = tag(":")(input)?
edge_colon(color) ==
    IF ~color.ok THEN color ELSE edge_node(color.val, tag(":", color.rest))

\* Puzzle::parse_edge
parse_edge(i) == edge_colon(alpha1(i))

\* The loop of separated_list1(space1, parse_edge) after an element: res
\* is the list so far and i the input after it. A failing separator
\* (EdgesSep), or a failing element after a separator (EdgesElem), ends the
\* list at the input before the separator.
RECURSIVE EdgesMore(_, _)
EdgesElem(i, res, e) ==
    IF ~e.ok THEN Ok(i, res) ELSE EdgesMore(e.rest, Append(res, e.val))

EdgesSep(i, res, sep) ==
    IF ~sep.ok THEN Ok(i, res) ELSE EdgesElem(i, res, parse_edge(sep.rest))

EdgesMore(i, res) == EdgesSep(i, res, space1(i))

\* The first element of separated_list1: its failure is the list's.
EdgesFirst(e) ==
    IF ~e.ok THEN e ELSE EdgesMore(e.rest, <<e.val>>)

\* separated_list1(space1, Puzzle::parse_edge)
parse_edges(i) == EdgesFirst(parse_edge(i))

\* parse_node, line 93: Ok((input, (node.to_string(), edges)))
node_new(node, edges) ==
    IF ~edges.ok THEN edges ELSE Ok(edges.rest, <<node, edges.val>>)

\* parse_node, line 92: the edges after the blanks
node_edges(node, sp) ==
    IF ~sp.ok THEN sp ELSE node_new(node, parse_edges(sp.rest))

\* parse_node, line 91: let (input, _) = space1(input)?
node_space(node) ==
    IF ~node.ok THEN node ELSE node_edges(node.val, space1(node.rest))

\* Puzzle::parse_node
parse_node(i) == node_space(alpha1(i))

\* The loop of separated_list0(tag("\n"), parse_node) after an element.
RECURSIVE NodesMore(_, _)
NodesElem(i, res, n) ==
    IF ~n.ok THEN Ok(i, res) ELSE NodesMore(n.rest, Append(res, n.val))

NodesSep(i, res, sep) ==
    IF ~sep.ok THEN Ok(i, res) ELSE NodesElem(i, res, parse_node(sep.rest))

NodesMore(i, res) == NodesSep(i, res, tag("\n", i))

\* The first element of separated_list0: its failure is the empty list,
\* not an error.
NodesFirst(i, n) ==
    IF ~n.ok THEN Ok(i, << >>) ELSE NodesMore(n.rest, <<n.val>>)

\* separated_list0(tag("\n"), Puzzle::parse_node)
parse_nodes(i) == NodesFirst(i, parse_node(i))

\* A bug: the first definition of a node wins.
RECURSIVE CollectFirstWins(_)
CollectFirstWins(pairs) ==
    IF pairs = << >> THEN << >>
    ELSE LET m == CollectFirstWins(Tail(pairs))
             k == Head(pairs)[1]
         IN  [n \in DOMAIN m \cup {k} |-> IF n = k THEN Head(pairs)[2] ELSE m[n]]

\* nodes.into_iter().collect() into the HashMap: a later pair of the same
\* key replaces the earlier one.
RECURSIVE Collect(_)
Collect(pairs) ==
    IF pairs = << >> THEN << >>
    ELSE LET m == Collect(Take(pairs, Len(pairs) - 1))
             last == pairs[Len(pairs)]
         IN  [n \in DOMAIN m \cup {last[1]} |->
                 IF n = last[1] THEN last[2] ELSE m[n]]

\* parse_puzzle, lines 80-85: the Puzzle of the collected nodes, or the
\* error of the list
puzzle_new(nodes) ==
    IF ~nodes.ok THEN nodes ELSE Ok(nodes.rest, Collect(nodes.val))

\* Puzzle::parse_puzzle
parse_puzzle(i) == puzzle_new(parse_nodes(i))

\* from_str, lines 66-72: the input left over by parse_puzzle is dropped.
finish(r) ==
    IF r.ok
    THEN [ok |-> TRUE, nodes |-> r.val, input |-> << >>, code |-> ""]
    ELSE [ok |-> FALSE, nodes |-> << >>, input |-> r.rest, code |-> r.code]

\* Puzzle::from_str
from_str(s) == finish(parse_puzzle(s))

(***************************************************************************)
(* The texts given to the program. A document is a sequence of lines       *)
(* [name, edges], an edge-spec is [tok, node].                             *)
(***************************************************************************)
RenderEdge(e) == e.tok \o <<":">> \o e.node

RECURSIVE RenderEdges(_)
RenderEdges(es) ==
    IF Len(es) = 1 THEN RenderEdge(es[1])
    ELSE RenderEdge(Head(es)) \o <<" ">> \o RenderEdges(Tail(es))

RenderLine(l) == l.name \o <<" ">> \o RenderEdges(l.edges)

RECURSIVE Render(_)
Render(doc) ==
    IF doc = << >> THEN << >>
    ELSE IF Len(doc) = 1 THEN RenderLine(doc[1])
    ELSE RenderLine(Head(doc)) \o <<"\n">> \o Render(Tail(doc))

\* The lines of name n with k edge-specs drawn from specs.
LinesFor(n, k, specs) ==
    { [name |-> n, edges |-> es] : es \in [1..k -> specs] }

\* The edge-specs of a searched text: a colour as Display prints it, and a
\* name of dests.
SolverSpecs(dests) ==
    { [tok |-> Display(c), node |-> n] : c \in Colors, n \in dests }

\* The documents with at most one line for each name of DefOrder from
\* position idx on, in that order, at most MaxOut edge-specs in a line and
\* at most budget in all.
RECURSIVE SolverDocs(_, _, _)
SolverDocs(idx, budget, specs) ==
    IF idx > Len(DefOrder) THEN { << >> }
    ELSE SolverDocs(idx + 1, budget, specs)
         \cup UNION { { <<l>> \o d : l \in LinesFor(DefOrder[idx], k, specs),
                                     d \in SolverDocs(idx + 1, budget - k, specs) }
                      : k \in { j \in 1..budget : j <= MaxOut } }

EditSpecs == { [tok |-> t, node |-> n] : t \in ColorToks, n \in EditNames }

\* The documents of any lines, a name defined twice included, with at most
\* budget edge-specs.
RECURSIVE EditDocs(_)
EditDocs(budget) ==
    { << >> }
    \cup UNION { { <<l>> \o d : l \in UNION { LinesFor(n, k, EditSpecs) : n \in EditNames },
                                d \in EditDocs(budget - k) }
                 : k \in 1..budget }

(***************************************************************************)
(* Puzzle::solve and pathfinding's dijkstra. A search state is an Edge:    *)
(* the node and the colour of the edge used to reach it.                   *)
(***************************************************************************)
\* A bug: every edge is kept.
KeepAll(last, color) == TRUE

\* A bug: a colourless edge is treated like any other colour.
KeepNoNeutral(last, color) == last # color

\* The condition of the filter_map: the edge of colour `color` is kept
\* after an edge of colour `last`.
Keep(last, color) == color = "None" \/ last # color

\* The elements of the sequence s that satisfy Keep after state.color, as
\* states, in order.
RECURSIVE FilterMap(_, _)
FilterMap(state, s) ==
    IF s = << >> THEN << >>
    ELSE IF Keep(state.color, Head(s).color)
         THEN <<Edge(Head(s).color, Head(s).node)>> \o FilterMap(state, Tail(s))
         ELSE FilterMap(state, Tail(s))

\* .map(|edge| (edge, 1)).collect()
WithCost(kept) == [k \in 1..Len(kept) |-> <<kept[k], 1>>]

\* The successors closure, for a state whose node has an entry.
successors(state) == WithCost(FilterMap(state, puzzle.nodes[state.node]))

\* A bug: the start state is not accepted as the goal.
SuccessMoved(state) == state.node = end /\ state.color # "None"

\* let success = |state: &Edge| state.node == end
success(state) == state.node = end

\* A bug: the edges of the node are looked up before the goal test.
StepLookupFirst(node) ==
    IF node.node \notin DOMAIN puzzle.nodes THEN "panic"
    ELSE IF success(node) THEN "reached"
    ELSE "expand"

\* What an iteration of dijkstra's loop does with the popped state: the
\* goal test comes first, then the successors closure is called, which
\* panics (unwrap of None) when the node has no entry.
Step(node) ==
    IF success(node) THEN "reached"
    ELSE IF node.node \notin DOMAIN puzzle.nodes THEN "panic"
    ELSE "expand"

\* parents.get_index_of(n): 0 when n is no key yet.
IndexOf(ps, n) ==
    IF \E k \in 1..Len(ps) : ps[k].node = n
    THEN CHOOSE k \in 1..Len(ps) : ps[k].node = n
    ELSE 0

\* The for loop over the successors: [parents, to_see] after it.
RECURSIVE Relax(_, _, _, _, _)
Relax(ps, ts, sc, index, cost) ==
    IF sc = << >> THEN [parents |-> ps, to_see |-> ts]
    ELSE LET successor == Head(sc)[1]
             new_cost == cost + Head(sc)[2]
             n == IndexOf(ps, successor)
         IN  IF n = 0
             THEN Relax(Append(ps, [node |-> successor, parent |-> index,
                                    cost |-> new_cost]),
                        Append(ts, [cost |-> new_cost, index |-> Len(ps) + 1]),
                        Tail(sc), index, cost)
             ELSE IF ps[n].cost > new_cost
             THEN Relax([ps EXCEPT ![n] = [node |-> successor, parent |-> index,
                                           cost |-> new_cost]],
                        Append(ts, [cost |-> new_cost, index |-> n]),
                        Tail(sc), index, cost)
             ELSE Relax(ps, ts, Tail(sc), index, cost)

\* reverse_path: the states from the start to target along the parents.
RECURSIVE reverse_path(_, _)
reverse_path(ps, target) ==
    IF target = 0 THEN << >>
    ELSE Append(reverse_path(ps, ps[target].parent), ps[target].node)

\* BinaryHeap::pop on SmallestHolder: an entry of the smallest cost; which
\* one among equal costs is the heap's business.
IsNext(ts, i) == \A j \in 1..Len(ts) : ts[i].cost <= ts[j].cost

Remove(s, i) == Take(s, i - 1) \o Drop(s, i)

\* No call of the successors closure yet.
NoEdge == [color |-> "None", node |-> << >>]

NoResult == [some |-> FALSE, path |-> << >>]

NoPuzzle == [ok |-> FALSE, nodes |-> << >>, input |-> << >>, code |-> ""]

(***************************************************************************)
(* The program                                                             *)
(***************************************************************************)
Blanked ==
    /\ puzzle = NoPuzzle
    /\ start = << >>
    /\ end = << >>
    /\ to_see = << >>
    /\ parents = << >>
    /\ edge = NoEdge
    /\ succ = << >>
    /\ result = NoResult

\* The text of a puzzle file, every node line for a different node.
Init ==
    /\ text \in { Render(d) : d \in SolverDocs(1, MaxEdges, SolverSpecs(Dests)) }
    /\ pc = "input"
    /\ Blanked

\* The same, with edges to every name.
InitWide ==
    /\ text \in { Render(d) : d \in SolverDocs(1, MaxEdges, SolverSpecs(Names)) }
    /\ pc = "input"
    /\ Blanked

\* The text of a puzzle file of any lines.
InitParse ==
    /\ text \in { Render(d) : d \in EditDocs(MaxSpecs) }
    /\ pc = "input"
    /\ Blanked

\* The file holds one more character than the document.
InsertChar ==
    /\ pc = "input"
    /\ \E p \in 0..Len(text), c \in EditChars :
           text' = Take(text, p) \o <<c>> \o Drop(text, p)
    /\ pc' = "edited"
    /\ UNCHANGED <<puzzle, start, end, to_see, parents, edge, succ, result>>

\* The file lacks one character of the document.
DeleteChar ==
    /\ pc = "input"
    /\ \E p \in 1..Len(text) : text' = Remove(text, p)
    /\ pc' = "edited"
    /\ UNCHANGED <<puzzle, start, end, to_see, parents, edge, succ, result>>

\* main: let puzzle: Puzzle = input.parse()?
Load ==
    /\ pc \in {"input", "edited"}
    /\ puzzle' = from_str(text)
    /\ pc' = IF puzzle'.ok THEN "loaded" ELSE "parse_error"
    /\ UNCHANGED <<text, start, end, to_see, parents, edge, succ, result>>

\* puzzle.solve(cli.start, cli.end) up to dijkstra's loop: the heap holds
\* the start state, at index 1 of parents.
Solve ==
    /\ pc = "loaded"
    /\ \E s \in Names, e \in Names :
           /\ start' = s
           /\ end' = e
           /\ parents' = << [node |-> Edge("None", s), parent |-> 0, cost |-> 0] >>
    /\ to_see' = << [cost |-> 0, index |-> 1] >>
    /\ pc' = "search"
    /\ UNCHANGED <<text, puzzle, edge, succ, result>>

\* while let Some(..) = to_see.pop() fails: solve returns None.
Exhausted ==
    /\ pc = "search"
    /\ to_see = << >>
    /\ pc' = "done"
    /\ result' = NoResult
    /\ UNCHANGED <<text, puzzle, start, end, to_see, parents, edge, succ>>

\* The popped state passes the goal test: solve returns the path to it.
Reached ==
    /\ pc = "search"
    /\ \E i \in 1..Len(to_see) :
           /\ IsNext(to_see, i)
           /\ Step(parents[to_see[i].index].node) = "reached"
           /\ to_see' = Remove(to_see, i)
           /\ result' = [some |-> TRUE,
                         path |-> reverse_path(parents, to_see[i].index)]
    /\ pc' = "done"
    /\ UNCHANGED <<text, puzzle, start, end, parents, edge, succ>>

\* The popped state's node has no entry: unwrap panics.
Panic ==
    /\ pc = "search"
    /\ \E i \in 1..Len(to_see) :
           /\ IsNext(to_see, i)
           /\ Step(parents[to_see[i].index].node) = "panic"
           /\ to_see' = Remove(to_see, i)
           /\ edge' = parents[to_see[i].index].node
    /\ pc' = "panic"
    /\ UNCHANGED <<text, puzzle, start, end, parents, succ, result>>

\* The popped state is expanded.
Expand ==
    /\ pc = "search"
    /\ \E i \in 1..Len(to_see) :
           /\ IsNext(to_see, i)
           /\ Step(parents[to_see[i].index].node) = "expand"
           /\ edge' = parents[to_see[i].index].node
           /\ succ' = successors(edge')
           /\ LET r == Relax(parents, Remove(to_see, i), succ',
                             to_see[i].index, to_see[i].cost)
              IN  /\ parents' = r.parents
                  /\ to_see' = r.to_see
    /\ UNCHANGED <<text, pc, puzzle, start, end, result>>

Next == Load \/ Solve \/ Exhausted \/ Reached \/ Panic \/ Expand

Spec == Init /\ [][Next]_vars

SpecWide == InitWide /\ [][Next]_vars

NextParse == InsertChar \/ DeleteChar \/ Load

SpecParse == InitParse /\ [][NextParse]_vars

(***************************************************************************)
(* The specification's reading of a search: its own colour rule, and a     *)
(* node without an entry has no successors.                                *)
(***************************************************************************)
States == [color : Colors, node : Names]

\* canFollow of the specification: legal unless both colours are the same
\* non-Neutral value.
CanFollow(last, candidate) == ~(last = candidate /\ candidate # "None")

EdgesOf(n) ==
    IF n \in DOMAIN puzzle.nodes
    THEN { puzzle.nodes[n][k] : k \in 1..Len(puzzle.nodes[n]) }
    ELSE { }

RuleSucc(s) ==
    { Edge(e.color, e.node) : e \in { x \in EdgesOf(s.node) : CanFollow(s.color, x.color) } }

PlainSucc(s) == { Edge(e.color, e.node) : e \in EdgesOf(s.node) }

\* The states at most k legal edges away from (start, Neutral).
RECURSIVE Within(_)
Within(k) ==
    IF k = 0 THEN { Edge("None", start) }
    ELSE LET w == Within(k - 1) IN w \cup UNION { RuleSucc(s) : s \in w }

\* The states legal paths lead to from the states of S.
RECURSIVE Closure(_)
Closure(S) ==
    IF \A s \in S : RuleSucc(s) \subseteq S THEN S
    ELSE Closure(S \cup UNION { RuleSucc(s) : s \in S })

\* The same, colours ignored.
RECURSIVE PlainClosure(_)
PlainClosure(S) ==
    IF \A s \in S : PlainSucc(s) \subseteq S THEN S
    ELSE PlainClosure(S \cup UNION { PlainSucc(s) : s \in S })

Reach == Closure({ Edge("None", start) })

Far == Cardinality(States)

AtEnd(S) == \E s \in S : s.node = end

GoalReachable == AtEnd(Reach)

PlainReachable == AtEnd(PlainClosure({ Edge("None", start) }))

\* The fewest edges of a legal path to end, when there is one.
Dist == CHOOSE k \in 0..Far : AtEnd(Within(k)) /\ \A j \in 0..(k - 1) : ~AtEnd(Within(j))

Searching == pc \in {"search", "done", "panic"}

Returned == pc = "done"

HasEdge(n, s) == \E e \in EdgesOf(n) : e.color = s.color /\ e.node = s.node

WellFormedPath(path) ==
    /\ path # << >>
    /\ path[1] = Edge("None", start)
    /\ path[Len(path)].node = end
    /\ \A k \in 1..(Len(path) - 1) :
           /\ HasEdge(path[k].node, path[k + 1])
           /\ path[k + 1].color = "None" \/ path[k + 1].color # path[k].color

(***************************************************************************)
(* The specification's reading of a text (its section 4.1).                *)
(***************************************************************************)
\* The pieces of s between the characters of seps.
RECURSIVE Split(_, _)
Split(s, seps) ==
    IF \A k \in 1..Len(s) : s[k] \notin seps THEN <<s>>
    ELSE LET n == CHOOSE k \in 1..Len(s) :
                      s[k] \in seps /\ \A j \in 1..(k - 1) : s[j] \notin seps
         IN  <<Take(s, n - 1)>> \o Split(Drop(s, n), seps)

NonEmpty(piece) == piece # << >>

IsName(w) == w # << >> /\ \A k \in 1..Len(w) : w[k] \in Alpha

IsEdgeSpec(w) ==
    LET parts == Split(w, {":"})
    IN  Len(parts) = 2 /\ IsName(parts[1]) /\ IsName(parts[2])

\* The words of a line: its pieces between runs of blanks.
Words(line) == SelectSeq(Split(line, Blank), NonEmpty)

IsNodeLine(line) ==
    /\ line # << >>
    /\ line[1] \notin Blank
    /\ line[Len(line)] \notin Blank
    /\ LET w == Words(line)
       IN  /\ Len(w) >= 2
           /\ IsName(w[1])
           /\ \A k \in 2..Len(w) : IsEdgeSpec(w[k])

TextLines(t) == IF t = << >> THEN << >> ELSE Split(t, {"\n"})

\* The text is zero or more node lines separated by single newlines.
Conforms(t) ==
    LET lines == TextLines(t)
    IN  \A k \in 1..Len(lines) : IsNodeLine(lines[k])

\* The colour a colour name stands for.
NamedColor(tok) ==
    IF tok = <<"r", "e", "d">> THEN "Red"
    ELSE IF tok = <<"b", "l", "u", "e">> THEN "Blue"
    ELSE "None"

SpecEdge(w) ==
    LET parts == Split(w, {":"})
    IN  Edge(NamedColor(parts[1]), parts[2])

LineName(line) == Words(line)[1]

\* The edges a node line spells, in order.
LineEdges(line) ==
    LET w == Words(line)
    IN  [k \in 1..(Len(w) - 1) |-> SpecEdge(w[k + 1])]

\* The node names the lines define.
LineNames(lines) == { LineName(lines[k]) : k \in 1..Len(lines) }

Loaded == pc = "loaded"

Parsed == pc \in {"loaded", "parse_error"}

(***************************************************************************)
(* The claims                                                              *)
(***************************************************************************)
\* C1: solve returns a path of the fewest edges among the legal paths from
\* (start, Neutral) to a state at end, and "no path" exactly when there is
\* no legal path: every search ends by returning, never by a panic.
C1_ShortestOrNoPath ==
    pc \in {"done", "panic"} =>
        /\ Returned
        /\ result.some <=> GoalReachable
        /\ result.some => Len(result.path) - 1 = Dist

\* C2: every path solve returns starts with (start, Neutral), ends at end,
\* follows edges of the graph and never takes two edges of the same
\* non-Neutral colour in a row.
C2_PathWellFormed ==
    (Returned /\ result.some) => WellFormedPath(result.path)

C2_Witness ==
    /\ Returned
    /\ result.some
    /\ Len(result.path) = 4
    /\ result.path[2].node = result.path[3].node

\* C3: expanding a state whose node has no entry yields no successors and
\* the search goes on: solve never aborts, and returns "no path" for a
\* start node without an entry and an end different from it.
C3_AbsentNodeHasNoSuccessors ==
    /\ pc # "panic"
    /\ (Returned /\ start \notin DOMAIN puzzle.nodes /\ start # end) => ~result.some

\* C4: parsing a text that does not conform to the grammar returns a parse
\* error, never a graph.
C4_MalformedTextIsAnError ==
    (Parsed /\ ~Conforms(text)) => ~puzzle.ok

\* C5: solve(s, s) returns the one-state path [(s, Neutral)] for any graph
\* and any s, a name without an entry included, and "no path" is another
\* result.
C5_StartIsEnd ==
    (Searching /\ start = end) =>
        /\ pc # "panic"
        /\ Len(parents) = 1
        /\ Returned => result = [some |-> TRUE, path |-> <<Edge("None", start)>>]
        /\ Returned => result # NoResult

C5_Witness ==
    /\ Returned
    /\ start = end
    /\ start \notin DOMAIN puzzle.nodes
    /\ result.some

\* C6: when end is reachable from start with colours ignored but not by any
\* legal path, solve returns "no path".
C6_BlockedIsNoPath ==
    (pc \in {"done", "panic"} /\ PlainReachable /\ ~GoalReachable) =>
        (Returned /\ ~result.some)

\* The edges of es that may follow an edge of colour last, by CanFollow.
RECURSIVE Legal(_, _)
Legal(last, es) ==
    IF es = << >> THEN << >>
    ELSE IF CanFollow(last, Head(es).color)
         THEN <<Head(es)>> \o Legal(last, Tail(es))
         ELSE Legal(last, Tail(es))

\* C7: the successors of an expanded state are exactly the edges of its
\* node that canFollow allows after the state's colour, each at cost 1:
\* an edge is dropped exactly when it has the colour of the last edge and
\* that colour is not Neutral.
C7_FilterIsCanFollow ==
    /\ \A last \in Colors, candidate \in Colors :
           Keep(last, candidate) <=> CanFollow(last, candidate)
    /\ (Searching /\ edge.node \in DOMAIN puzzle.nodes) =>
           /\ Len(succ) = Len(Legal(edge.color, puzzle.nodes[edge.node]))
           /\ \A k \in 1..Len(succ) :
                  succ[k] = <<Legal(edge.color, puzzle.nodes[edge.node])[k], 1>>

C7_Witness ==
    /\ Searching
    /\ edge.node \in DOMAIN puzzle.nodes
    /\ edge.color = "Red"
    /\ Len(puzzle.nodes[edge.node]) = 2
    /\ puzzle.nodes[edge.node][1].color = "Red"
    /\ puzzle.nodes[edge.node][2].color = "None"
    /\ Len(succ) = 1

\* Line k is the last line of its name.
IsLastOfName(lines, k) ==
    \A j \in (k + 1)..Len(lines) : LineName(lines[j]) # LineName(lines[k])

\* C8 as stated: parsing a well-formed text gives the graph whose keys are
\* the node names of the text, every line's edges being the edge list of
\* its node, in order.
C8_EveryLineIsItsNodesList ==
    (Parsed /\ Conforms(text)) =>
        LET lines == TextLines(text)
        IN  /\ Loaded
            /\ DOMAIN puzzle.nodes = LineNames(lines)
            /\ \A k \in 1..Len(lines) :
                   puzzle.nodes[LineName(lines[k])] = LineEdges(lines[k])

\* C8, amended: parsing a well-formed text gives the graph whose keys are
\* the node names of the text, the edge list of a node being the edges of
\* the last line that defines it, in order.
C8_LastLineIsItsNodesList ==
    (Parsed /\ Conforms(text)) =>
        LET lines == TextLines(text)
        IN  /\ Loaded
            /\ DOMAIN puzzle.nodes = LineNames(lines)
            /\ \A k \in 1..Len(lines) :
                   IsLastOfName(lines, k) =>
                       puzzle.nodes[LineName(lines[k])] = LineEdges(lines[k])

C8_Witness ==
    /\ Loaded
    /\ Conforms(text)
    /\ Len(TextLines(text)) = 2
    /\ LineName(TextLines(text)[1]) = LineName(TextLines(text)[2])
    /\ LineEdges(TextLines(text)[1]) # LineEdges(TextLines(text)[2])
    /\ puzzle.nodes[LineName(TextLines(text)[2])] = LineEdges(TextLines(text)[2])

\* The colour name and the node name of a text that starts with an
\* edge-spec.
SpecTok(t) == Take(t, PrefixLen(t, Alpha))

SpecNode(t) ==
    LET rest == Drop(t, PrefixLen(t, Alpha) + 1)
    IN  Take(rest, PrefixLen(rest, Alpha))

StartsWithSpec(t) ==
    LET n == PrefixLen(t, Alpha)
    IN  /\ n > 0
        /\ Len(t) > n
        /\ t[n + 1] = ":"
        /\ SpecNode(t) # << >>

\* parse_edge gives the edge a text that starts with an edge-spec spells.
ParsesAsSpelt(t) ==
    LET r == parse_edge(t)
    IN  r.ok /\ r.val = Edge(NamedColor(SpecTok(t)), SpecNode(t))

\* The edges of the graph have the colours the tokens of the lines name.
ColoursAsNamed(lines) ==
    \A k \in 1..Len(lines) :
        IsLastOfName(lines, k) =>
            LET spelt == LineEdges(lines[k])
                got == puzzle.nodes[LineName(lines[k])]
            IN  \A j \in 1..Len(spelt) : got[j].color = spelt[j].color

\* C9: "red" names Red, "blue" names Blue and every other alphabetic token
\* names Neutral: wherever an edge-spec starts in the text, parse_edge
\* succeeds with the edge of that colour, and the edges of a parsed
\* well-formed text have the colours their tokens name.
C9_ColourNamesAreTotal ==
    /\ \A p \in 0..Len(text) :
           StartsWithSpec(Drop(text, p)) => ParsesAsSpelt(Drop(text, p))
    /\ (Loaded /\ Conforms(text)) => ColoursAsNamed(TextLines(text))

C9_Witness ==
    /\ Loaded
    /\ Conforms(text)
    /\ Len(TextLines(text)) = 1
    /\ Len(Words(TextLines(text)[1])) = 3
    /\ Split(Words(TextLines(text)[1])[2], {":"})[1] = <<"b", "l", "u", "e">>
    /\ Split(Words(TextLines(text)[1])[3], {":"})[1] = <<"r", "e", "a", "d">>
    /\ puzzle.nodes[LineName(TextLines(text)[1])][1].color = "Blue"
    /\ puzzle.nodes[LineName(TextLines(text)[1])][2].color = "None"

\* Every node other than end that a legal path from (start, Neutral)
\* reaches has an entry.
ReachableAreDefined ==
    \A s \in Reach : s.node # end => s.node \in DOMAIN puzzle.nodes

\* C10: the goal test comes before the lookup of a state's edges: when
\* every reachable node other than end has an entry, the search never
\* fails a lookup and returns a path exactly when end is reachable, also
\* when end has no entry of its own.
C10_GoalTestBeforeLookup ==
    (Searching /\ ReachableAreDefined) =>
        /\ pc # "panic"
        /\ Returned => (result.some <=> GoalReachable)

C10_Witness ==
    /\ Returned
    /\ ReachableAreDefined
    /\ end \notin DOMAIN puzzle.nodes
    /\ result.some
    /\ Len(result.path) = 3

====
